---- MODULE Spec2Model ----
(***************************************************************************)
(* whatisthegovtsaying: the Digest Store (SQLite tables), the digest       *)
(* generation pipeline that writes it, the presentation-layer readers of   *)
(* src/lib/digest.ts that read it, and the container's shell scripts       *)
(* (build_and_deploy.sh, entrypoint.sh).                                   *)
(*                                                                         *)
(* Dates are day numbers (1 = the first calendar day of the model); the    *)
(* store keeps them as fixed-width ISO strings, whose string order is the  *)
(* calendar order.  Generated texts (summaries) are left out; titles are   *)
(* kept because buildDigestPage converts them.                             *)
(***************************************************************************)
EXTENDS Integers, Sequences, FiniteSets, TLC

\* ------------------------------------------------------------ bounds
\* The latest calendar date of the runs of Spec (dates are 1..MaxDate).
MaxDate == 2
\* The most days a run is asked to backfill.
MaxBackfill == 3
\* Calendar days the container's clock is followed for in SpecSched.
MaxDay == 2
\* Seconds that may pass between the commands of one iteration of the daily loop.
MaxLag == 1

\* ------------------------------------------------------------ constants
\* Days of a weekly window.
WindowDays == 7
\* Seconds of a day, and of 07:00 since midnight (UTC).
DaySecs == 86400
SevenAM == 25200

VARIABLES
  today,            \* the calendar date of the pipeline's runs
  db,               \* the committed tables of the Digest Store
  tx,               \* the writer's open transaction: rows not yet committed
  pc,               \* the orchestrator's state
  planned,          \* the missing dates of the run, ascending; the head is in process
  acc,              \* country code -> what the day's processing produced for it
  rpc,              \* the reader's position in its call
  rop,              \* the read operation in flight: [name, arg]
  rconn,            \* the reader's own connection: "open" or "closed"
  rrow,             \* the row the reader's first SELECT returned (a sequence of 0 or 1 rows)
  rrows,            \* countryRows of buildDigestPage, in the order returned
  rcountries,       \* countries mapped so far by buildDigestPage
  rresult,          \* what the call returned
  clock,            \* the container's clock, seconds since the first midnight (UTC)
  epc,              \* entrypoint.sh: the line it is at
  now,              \* entrypoint.sh: $now
  today_07,         \* entrypoint.sh: $today_07
  tomorrow_07,      \* entrypoint.sh: $tomorrow_07
  target,           \* entrypoint.sh: $target
  sleep_seconds,    \* entrypoint.sh: $sleep_seconds
  bpc,              \* build_and_deploy.sh: the step it is at
  steps,            \* build_and_deploy.sh: the steps started by the run in progress, in order
  exits,            \* build_and_deploy.sh: the exit status of each step of it that ended
  runs              \* the (start instant, target, exit status) of each daily run started so far

storeVars == <<today, db, tx, pc, planned, acc>>
readerVars == <<rpc, rop, rconn, rrow, rrows, rcountries, rresult>>
schedVars == <<clock, epc, now, today_07, tomorrow_07, target, sleep_seconds, bpc, steps, exits, runs>>
vars == <<storeVars, readerVars, schedVars>>

\* ------------------------------------------------------------ helpers
Max(S) == CHOOSE x \in S : \A y \in S : y <= x

\* The rows of S in ascending order of key (a function on S): SQL's ORDER BY.
RECURSIVE OrderBy(_, _)
OrderBy(S, key) ==
  IF S = {} THEN <<>>
  ELSE LET m == CHOOSE x \in S : \A y \in S : key[x] <= key[y]
       IN <<m>> \o OrderBy(S \ {m}, key)

Range(s) == {s[i] : i \in 1..Len(s)}

\* ------------------------------------------------------------ the news source
\* The supported country codes and their display names.
Countries == {"AE", "AR"}

COUNTRY_NAMES(code) == IF code = "AE" THEN "UAE" ELSE "Argentina"

\* Position of a country code in alphabetical order of the codes.
CodeRank(code) == IF code = "AE" THEN 1 ELSE 2

\* SQLite's BINARY collation on the display names in use.
Collate(name) == IF name = "Argentina" THEN 1 ELSE 2

\* The release_ids the news source returns for a country and a date.  Release 3
\* is republished on date 2; AE publishes on date 1 only.
Feed(code, date) ==
  IF code = "AR"
  THEN (IF date = 1 THEN {1, 2, 3} ELSE IF date = 2 THEN {3, 5} ELSE {date + 3})
  ELSE (IF date = 1 THEN {4} ELSE {})

\* ------------------------------------------------------------ the Digest Store
EmptyDb ==
  [daily_digest |-> {}, country_digest |-> {}, release_summary |-> {},
   weekly_digest |-> {}, weekly_country_digest |-> {}]

NoTx == [open |-> FALSE, rows |-> EmptyDb]

\* The tables as seen inside the writer's transaction.
Merged(d, t) ==
  [daily_digest |-> d.daily_digest \cup t.daily_digest,
   country_digest |-> d.country_digest \cup t.country_digest,
   release_summary |-> d.release_summary \cup t.release_summary,
   weekly_digest |-> d.weekly_digest \cup t.weekly_digest,
   weekly_country_digest |-> d.weekly_country_digest \cup t.weekly_country_digest]

\* SQLite's rowid of the next row of a table.
NextId(rows) == IF rows = {} THEN 1 ELSE Max({r.id : r \in rows}) + 1

hasDailyDigest(date) == \E r \in db.daily_digest : r.date = date

hasWeeklyDigest(weekEnd) == \E r \in db.weekly_digest : r.week_end = weekEnd

isReleaseAlreadySummarizedOff(release_id) == FALSE

isReleaseAlreadySummarized(release_id) ==
  \E r \in db.release_summary : r.release_id = release_id

\* ------------------------------------------------------------ the weekly window
WeekEndOf(date) == ((date - 1) \div WindowDays + 1) * WindowDays

WeekStartOf(weekEnd) == weekEnd - (WindowDays - 1)

WindowOf(weekEnd) == WeekStartOf(weekEnd)..weekEnd

WindowStarted(store, weekEnd) ==
  \E d \in WindowOf(weekEnd) : \E r \in store.daily_digest : r.date = d

\* All seven DailyDigest rows of the window exist.
WindowComplete(store, weekEnd) ==
  \A d \in WindowOf(weekEnd) : \E r \in store.daily_digest : r.date = d

\* ------------------------------------------------------------ the pipeline
\* What the processing of a day holds for a country before it is processed.
Unprocessed == [done |-> FALSE, passed |-> {}, ok |-> {}]

NoAcc == [c \in Countries |-> Unprocessed]

\* The countries of the day in process that have at least one release summary.
Content == {c \in Countries : acc[c].ok # {}}

AllDates(n) == {d \in (today - n + 1)..today : d >= 1}

\* Planning: the dates of "backfill n days" that have no DailyDigest yet.
MissingDates(n) == {d \in (today - n + 1)..today : d >= 1 /\ ~hasDailyDigest(d)}

\* The next planned date, or DONE when the planned dates are exhausted.
NextDate ==
  /\ planned' = Tail(planned)
  /\ pc' = IF Len(planned) = 1 THEN "DONE" ELSE "PROCESSING_DAY"
  /\ acc' = NoAcc

\* A run starts: PLANNING computes the ordered missing dates of the range.
Planning(n) ==
  /\ pc = "DONE"
  /\ planned' = OrderBy(MissingDates(n), [d \in MissingDates(n) |-> d])
  /\ pc' = IF MissingDates(n) = {} THEN "DONE" ELSE "PROCESSING_DAY"
  /\ acc' = NoAcc
  /\ UNCHANGED <<today, db, tx>>
  /\ UNCHANGED <<readerVars, schedVars>>

\* One country of the day: fetch (zero releases or a FetchError give nothing),
\* drop the releases already summarized, summarize each of the others (a release
\* whose summarization fails persistently is skipped), roll the country up.
ProcessCountry(code) ==
  /\ pc = "PROCESSING_DAY"
  /\ ~acc[code].done
  /\ \E fetched \in {Feed(code, Head(planned)), {}} :
       LET fresh == {r \in fetched : ~isReleaseAlreadySummarized(r)} IN
       \E ok \in SUBSET fresh :
         acc' = [acc EXCEPT ![code] = [done |-> TRUE, passed |-> fresh, ok |-> ok]]
  /\ UNCHANGED <<today, db, tx, pc, planned>>
  /\ UNCHANGED <<readerVars, schedVars>>

\* No country produced content: the day is skipped, no DailyDigest is written.
SkipDay ==
  /\ pc = "PROCESSING_DAY"
  /\ \A c \in Countries : acc[c].done
  /\ Content = {}
  /\ NextDate
  /\ UNCHANGED <<today, db, tx>>
  /\ UNCHANGED <<readerVars, schedVars>>

\* The global rollup: its persistent failure is fatal to the day; on success
\* commitDailyDigest opens its transaction.
SummarizeGlobal ==
  /\ pc = "PROCESSING_DAY"
  /\ \A c \in Countries : acc[c].done
  /\ Content # {}
  /\ \/ /\ pc' = "COMMIT_DAY"
        /\ tx' = [open |-> TRUE, rows |-> EmptyDb]
        /\ UNCHANGED <<planned, acc>>
     \/ /\ NextDate
        /\ UNCHANGED tx
  /\ UNCHANGED <<today, db>>
  /\ UNCHANGED <<readerVars, schedVars>>

\* A PersistenceError or a crash inside the transaction: SQLite rolls it back and
\* the run ends.
Rollback ==
  /\ tx' = NoTx
  /\ pc' = "DONE"
  /\ planned' = <<>>
  /\ acc' = NoAcc

\* The country_digest row of a country of the day and its release_summary rows.
CountryRow(code, seen) ==
  [id |-> NextId(seen.country_digest),
   daily_digest_id |-> NextId(db.daily_digest),
   country_code |-> code,
   country_name |-> COUNTRY_NAMES(code),
   title |-> "title"]

ReleaseRows(code, seen) ==
  LET ids == OrderBy(acc[code].ok, [r \in acc[code].ok |-> r])
      base == NextId(seen.release_summary)
  IN {[id |-> base + i - 1,
       country_digest_id |-> NextId(seen.country_digest),
       release_id |-> ids[i]] : i \in 1..Len(ids)}

\* commitDailyDigest, the children: the next country in order of its code.
WriteCountry ==
  /\ pc = "COMMIT_DAY"
  /\ tx.open
  /\ LET written == {r.country_code : r \in tx.rows.country_digest}
         left == Content \ written
         seen == Merged(db, tx.rows)
     IN /\ left # {}
        /\ LET code == CHOOSE c \in left : \A o \in left : CodeRank(c) <= CodeRank(o)
           IN IF \E r \in seen.release_summary : r.release_id \in acc[code].ok
              THEN Rollback
              ELSE /\ tx' = [tx EXCEPT
                        !.rows.country_digest = @ \cup {CountryRow(code, seen)},
                        !.rows.release_summary = @ \cup ReleaseRows(code, seen)]
                   /\ UNCHANGED <<pc, planned, acc>>
  /\ UNCHANGED <<today, db>>
  /\ UNCHANGED <<readerVars, schedVars>>

\* commitDailyDigest, the daily row (date UNIQUE).
WriteDaily ==
  /\ pc = "COMMIT_DAY"
  /\ tx.open
  /\ Content = {r.country_code : r \in tx.rows.country_digest}
  /\ tx.rows.daily_digest = {}
  /\ IF hasDailyDigest(Head(planned))
     THEN Rollback
     ELSE /\ tx' = [tx EXCEPT !.rows.daily_digest =
                      {[id |-> NextId(db.daily_digest), date |-> Head(planned)]}]
          /\ UNCHANGED <<pc, planned, acc>>
  /\ UNCHANGED <<today, db>>
  /\ UNCHANGED <<readerVars, schedVars>>

\* COMMIT: the whole day becomes visible at once.  A day that completes its
\* weekly window hands over to the weekly rollup.
CommitDay ==
  /\ pc = "COMMIT_DAY"
  /\ tx.open
  /\ tx.rows.daily_digest # {}
  /\ db' = Merged(db, tx.rows)
  /\ tx' = NoTx
  /\ IF /\ WindowComplete(db', WeekEndOf(Head(planned)))
        /\ ~hasWeeklyDigest(WeekEndOf(Head(planned)))
     THEN /\ pc' = "ROLLING_UP_WEEK"
          /\ UNCHANGED <<planned, acc>>
     ELSE NextDate
  /\ UNCHANGED today
  /\ UNCHANGED <<readerVars, schedVars>>

\* The writer dies or the store fails while the transaction is open.
AbortCommit ==
  /\ pc = "COMMIT_DAY"
  /\ tx.open
  /\ Rollback
  /\ UNCHANGED <<today, db>>
  /\ UNCHANGED <<readerVars, schedVars>>

\* The weekly rows of a complete window: one weekly_digest row and one
\* weekly_country_digest row per country of the week's daily digests.
WeeklyRows(weekEnd) ==
  LET days == {r.id : r \in {x \in db.daily_digest : x.date \in WindowOf(weekEnd)}}
      codes == {c.country_code : c \in {x \in db.country_digest : x.daily_digest_id \in days}}
      wid == NextId(db.weekly_digest)
      base == NextId(db.weekly_country_digest)
  IN [EmptyDb EXCEPT
        !.weekly_digest =
          {[id |-> wid, week_start |-> WeekStartOf(weekEnd), week_end |-> weekEnd]},
        !.weekly_country_digest =
          {[id |-> base + Cardinality({o \in codes : CodeRank(o) < CodeRank(c)}),
            weekly_digest_id |-> wid,
            country_code |-> c,
            country_name |-> COUNTRY_NAMES(c),
            title |-> "title"] : c \in codes}]

\* ROLLING_UP_WEEK: summarize each country's week and the week, commitWeeklyDigest.
RollupWeek ==
  /\ pc = "ROLLING_UP_WEEK"
  /\ db' = Merged(db, WeeklyRows(WeekEndOf(Head(planned))))
  /\ NextDate
  /\ UNCHANGED <<today, tx>>
  /\ UNCHANGED <<readerVars, schedVars>>

\* ------------------------------------------------------------ the readers
\* src/lib/digest.ts.  Every call opens its own read-only connection, runs its
\* SELECT statements one after the other (the writer may commit between two of
\* them) and closes the connection in a finally block.

SharedConnection == Merged(db, tx.rows)

\* getDb: a connection of the reader's own sees the committed tables only.
getDb == db

NoResult == [kind |-> "none"]

ReturnedNull == [kind |-> "null"]

Idle == rpc \in {"idle", "returned", "threw"}

leakOnThrow == "open"

\* finally { db.close(); } on the path of a thrown exception.
closeOnThrow == "closed"

\* The call returns value: the finally block closes the connection.
Return(value) ==
  /\ rresult' = value
  /\ rpc' = "returned"
  /\ rconn' = "closed"

\* "title: c.title || ''".
OrEmpty(title) == IF title = "null" THEN "" ELSE title

ByDateAsc(rows) == OrderBy(rows, [r \in rows |-> r.date])

\* "ORDER BY date DESC" on daily_digest rows.
ByDateDesc(rows) == OrderBy(rows, [r \in rows |-> 0 - r.date])

\* "ORDER BY week_end DESC" on weekly_digest rows.
ByWeekEndDesc(rows) == OrderBy(rows, [r \in rows |-> 0 - r.week_end])

ByCountryCode(rows) == OrderBy(rows, [r \in rows |-> CodeRank(r.country_code)])

\* "ORDER BY country_name".
ByCountryName(rows) == OrderBy(rows, [r \in rows |-> Collate(r.country_name)])

\* "LIMIT 1".
Limit1(rows) == IF rows = <<>> THEN <<>> ELSE <<rows[1]>>

\* "ORDER BY id".
ById(rows) == OrderBy(rows, [r \in rows |-> r.id])

CountryRowsByDate(conn, digest) ==
  {c \in conn.country_digest : c.daily_digest_id = digest.date}

\* "SELECT * FROM country_digest WHERE daily_digest_id = ?" bound to digest.id.
CountryRowsOf(conn, digest) ==
  {c \in conn.country_digest : c.daily_digest_id = digest.id}

\* "SELECT * FROM release_summary WHERE country_digest_id = ?".
ReleaseRowsOf(conn, countryId) ==
  {r \in conn.release_summary : r.country_digest_id = countryId}

\* The first statement of a daily call found row (a sequence of 0 or 1 rows):
\* null without a row, else on to buildDigestPage.
FirstRow(name, arg, row) ==
  /\ rop' = [name |-> name, arg |-> arg]
  /\ rrow' = row
  /\ rrows' = <<>>
  /\ rcountries' = <<>>
  /\ IF row = <<>>
     THEN Return(ReturnedNull)
     ELSE /\ rpc' = "buildDigestPage"
          /\ rconn' = "open"
          /\ rresult' = NoResult

getLatestDigest ==
  /\ Idle
  /\ FirstRow("getLatestDigest", 0, Limit1(ByDateDesc(getDb.daily_digest)))
  /\ UNCHANGED <<storeVars, schedVars>>

getDigestByDate(date) ==
  /\ Idle
  /\ FirstRow("getDigestByDate", date,
              ById({r \in getDb.daily_digest : r.date = date}))
  /\ UNCHANGED <<storeVars, schedVars>>

\* buildDigestPage, the country rows of the digest.
SelectCountries ==
  /\ rpc = "buildDigestPage"
  /\ LET countryRows == ByCountryName(CountryRowsOf(getDb, rrow[1])) IN
       /\ rrows' = countryRows
       /\ IF countryRows = <<>>
          THEN Return([kind |-> "page", digest |-> rrow[1], countries |-> <<>>])
          ELSE /\ rpc' = "releases"
               /\ UNCHANGED <<rconn, rresult>>
  /\ UNCHANGED <<rop, rrow, rcountries>>
  /\ UNCHANGED <<storeVars, schedVars>>

\* buildDigestPage, the map over countryRows: the releases of the next country.
SelectReleases ==
  /\ rpc = "releases"
  /\ LET c == rrows[Len(rcountries) + 1]
         mapped == Append(rcountries,
                     [id |-> c.id,
                      country_code |-> c.country_code,
                      country_name |-> c.country_name,
                      title |-> OrEmpty(c.title),
                      releases |-> ById(ReleaseRowsOf(getDb, c.id))])
     IN /\ rcountries' = mapped
        /\ IF Len(mapped) = Len(rrows)
           THEN Return([kind |-> "page", digest |-> rrow[1], countries |-> mapped])
           ELSE UNCHANGED <<rpc, rconn, rresult>>
  /\ UNCHANGED <<rop, rrow, rrows>>
  /\ UNCHANGED <<storeVars, schedVars>>

getAllDigestDates ==
  /\ Idle
  /\ rop' = [name |-> "getAllDigestDates", arg |-> 0]
  /\ rrow' = <<>>
  /\ rrows' = <<>>
  /\ rcountries' = <<>>
  /\ LET rows == ByDateDesc(getDb.daily_digest) IN
       Return([kind |-> "dates", dates |-> [i \in 1..Len(rows) |-> rows[i].date]])
  /\ UNCHANGED <<storeVars, schedVars>>

getWeeklyDigest(weekEnd) ==
  /\ Idle
  /\ rop' = [name |-> "getWeeklyDigest", arg |-> weekEnd]
  /\ rrows' = <<>>
  /\ rcountries' = <<>>
  /\ LET row == ById({r \in getDb.weekly_digest : r.week_end = weekEnd}) IN
       /\ rrow' = row
       /\ IF row = <<>>
          THEN Return(ReturnedNull)
          ELSE /\ rpc' = "buildWeeklyPage"
               /\ rconn' = "open"
               /\ rresult' = NoResult
  /\ UNCHANGED <<storeVars, schedVars>>

buildWeeklyPage ==
  /\ rpc = "buildWeeklyPage"
  /\ LET countryRows ==
           ByCountryName({c \in getDb.weekly_country_digest :
                            c.weekly_digest_id = rrow[1].id})
     IN Return([kind |-> "weekly", digest |-> rrow[1],
                countries |-> [i \in 1..Len(countryRows) |->
                   [id |-> countryRows[i].id,
                    country_code |-> countryRows[i].country_code,
                    country_name |-> countryRows[i].country_name,
                    title |-> OrEmpty(countryRows[i].title)]]])
  /\ UNCHANGED <<rop, rrow, rrows, rcountries>>
  /\ UNCHANGED <<storeVars, schedVars>>

getAllWeeklyDates ==
  /\ Idle
  /\ rop' = [name |-> "getAllWeeklyDates", arg |-> 0]
  /\ rrow' = <<>>
  /\ rrows' = <<>>
  /\ rcountries' = <<>>
  /\ LET rows == ByWeekEndDesc(getDb.weekly_digest) IN
       Return([kind |-> "dates", dates |-> [i \in 1..Len(rows) |-> rows[i].week_end]])
  /\ UNCHANGED <<storeVars, schedVars>>

\* A statement of a call in flight throws (SQLITE_BUSY, an I/O error): the
\* exception leaves through the finally block.
StatementThrows ==
  /\ rpc \in {"buildDigestPage", "releases", "buildWeeklyPage"}
  /\ rpc' = "threw"
  /\ rresult' = [kind |-> "threw"]
  /\ rconn' = closeOnThrow
  /\ UNCHANGED <<rop, rrow, rrows, rcountries>>
  /\ UNCHANGED <<storeVars, schedVars>>

\* ------------------------------------------------------------ the container
\* scripts/build_and_deploy.sh (set -euo pipefail; generate, build, deploy) and
\* scripts/entrypoint.sh (an initial run, then the daily loop).

Pipeline == <<"generate", "build", "deploy">>

NoErrExit(status) == FALSE

\* "set -e": a step that exits non-zero ends the script with that status.
ErrExit(status) == status # 0

\* The status recorded for a daily run that has not ended.
Running == 0 - 1

\* The script is started: "python3 scripts/generate_digest.py" runs.
StartBuildAndDeploy ==
  /\ epc \in {"initial_run", "daily_run"}
  /\ bpc = "idle"
  /\ bpc' = Pipeline[1]
  /\ steps' = <<Pipeline[1]>>
  /\ exits' = <<>>
  /\ runs' = IF epc = "daily_run"
             THEN Append(runs, [start |-> clock, target |-> target, status |-> Running])
             ELSE runs
  /\ UNCHANGED <<clock, epc, now, today_07, tomorrow_07, target, sleep_seconds>>
  /\ UNCHANGED <<storeVars, readerVars>>

\* The step in progress exits with status: under set -e a failure ends the
\* script, otherwise the next step starts, and after the deploy the script ends.
StepExits(status) ==
  /\ bpc \in Range(Pipeline)
  /\ exits' = Append(exits, status)
  /\ IF ErrExit(status)
     THEN /\ bpc' = "failed"
          /\ UNCHANGED steps
     ELSE IF Len(steps) = Len(Pipeline)
          THEN /\ bpc' = "succeeded"
               /\ UNCHANGED steps
          ELSE /\ bpc' = Pipeline[Len(steps) + 1]
               /\ steps' = Append(steps, Pipeline[Len(steps) + 1])
  /\ UNCHANGED <<clock, epc, now, today_07, tomorrow_07, target, sleep_seconds, runs>>
  /\ UNCHANGED <<storeVars, readerVars>>

\* The exit status of build_and_deploy.sh once it ended: under set -e that of
\* the step that failed, else 0.
ScriptStatus == IF bpc = "failed" THEN exits[Len(exits)] ELSE 0

\* The entrypoint ends with the status of the command that failed; the run
\* that failed is left as it ended.
Exit ==
  /\ epc' = "exited"
  /\ UNCHANGED <<bpc, steps, exits>>

\* The entrypoint goes on to the (next) iteration of the loop.
Loop ==
  /\ epc' = "now"
  /\ bpc' = "idle"
  /\ steps' = <<>>
  /\ exits' = <<>>

\* entrypoint.sh line 17: under set -e (line 14) a failing initial run ends the
\* entrypoint.
InitialRunEnds ==
  /\ epc = "initial_run"
  /\ bpc \in {"failed", "succeeded"}
  /\ IF ErrExit(ScriptStatus) THEN Exit ELSE Loop
  /\ UNCHANGED <<clock, now, today_07, tomorrow_07, target, sleep_seconds, runs>>
  /\ UNCHANGED <<storeVars, readerVars>>

\* The instants the clock is looked at: around midnight and around 07:00.
Offsets == {0, SevenAM - 1, SevenAM, SevenAM + 1, DaySecs - 1}

Instants == {d * DaySecs + o : d \in 0..MaxDay, o \in Offsets}

Horizon == (MaxDay + 1) * DaySecs

\* "date -u -d 'today 07:00' +%s" run at instant t.
Today07(t) == (t \div DaySecs) * DaySecs + SevenAM

\* "date -u -d 'tomorrow 07:00' +%s" run at instant t.
Tomorrow07(t) == (t \div DaySecs + 1) * DaySecs + SevenAM

\* A step of build_and_deploy.sh takes time: any time at all.
Tick ==
  /\ bpc \in Range(Pipeline)
  /\ \E t \in Instants : t > clock /\ clock' = t
  /\ UNCHANGED <<epc, now, today_07, tomorrow_07, target, sleep_seconds, bpc, steps, exits, runs>>
  /\ UNCHANGED <<storeVars, readerVars>>

\* The loop's own commands are quick: between the sampling of now and the start
\* of the sleep the clock moves on by at most MaxLag seconds.
SecondPasses ==
  /\ epc \in {"today_07", "tomorrow_07", "target", "sleep"}
  /\ clock < now + MaxLag
  /\ clock' = clock + 1
  /\ UNCHANGED <<epc, now, today_07, tomorrow_07, target, sleep_seconds, bpc, steps, exits, runs>>
  /\ UNCHANGED <<storeVars, readerVars>>

\* line 22: now=$(date -u +%s)
SampleNow ==
  /\ epc = "now"
  /\ now' = clock
  /\ epc' = "today_07"
  /\ UNCHANGED <<clock, today_07, tomorrow_07, target, sleep_seconds, bpc, steps, exits, runs>>
  /\ UNCHANGED <<storeVars, readerVars>>

\* line 23: today_07=$(date -u -d "today 07:00" +%s)
SampleToday07 ==
  /\ epc = "today_07"
  /\ today_07' = Today07(clock)
  /\ epc' = "tomorrow_07"
  /\ UNCHANGED <<clock, now, tomorrow_07, target, sleep_seconds, bpc, steps, exits, runs>>
  /\ UNCHANGED <<storeVars, readerVars>>

\* line 24: tomorrow_07=$(date -u -d "tomorrow 07:00" +%s)
SampleTomorrow07 ==
  /\ epc = "tomorrow_07"
  /\ tomorrow_07' = Tomorrow07(clock)
  /\ epc' = "target"
  /\ UNCHANGED <<clock, now, today_07, target, sleep_seconds, bpc, steps, exits, runs>>
  /\ UNCHANGED <<storeVars, readerVars>>

\* lines 26-32: the target and the seconds to sleep.
ComputeSleep ==
  /\ epc = "target"
  /\ target' = IF now < today_07 THEN today_07 ELSE tomorrow_07
  /\ sleep_seconds' = target' - now
  /\ epc' = "sleep"
  /\ UNCHANGED <<clock, now, today_07, tomorrow_07, bpc, steps, exits, runs>>
  /\ UNCHANGED <<storeVars, readerVars>>

\* line 34: sleep "$sleep_seconds"
Sleep ==
  /\ epc = "sleep"
  /\ clock + sleep_seconds <= Horizon
  /\ clock' = clock + sleep_seconds
  /\ epc' = "daily_run"
  /\ UNCHANGED <<now, today_07, tomorrow_07, target, sleep_seconds, bpc, steps, exits, runs>>
  /\ UNCHANGED <<storeVars, readerVars>>

NoOrEcho(status) == status

\* "cmd || echo ...": the status of the list is that of echo when cmd fails.
OrEcho(status) == 0

\* line 37: build_and_deploy.sh || echo "Build failed, will retry next cycle"
DailyRunEnds ==
  /\ epc = "daily_run"
  /\ bpc \in {"failed", "succeeded"}
  /\ IF ErrExit(OrEcho(ScriptStatus)) THEN Exit ELSE Loop
  /\ runs' = [runs EXCEPT ![Len(runs)].status = ScriptStatus]
  /\ UNCHANGED <<clock, now, today_07, tomorrow_07, target, sleep_seconds>>
  /\ UNCHANGED <<storeVars, readerVars>>

\* ------------------------------------------------------------ specifications
InitReader ==
  /\ rpc = "idle"
  /\ rop = [name |-> "none", arg |-> 0]
  /\ rconn = "closed"
  /\ rrow = <<>>
  /\ rrows = <<>>
  /\ rcountries = <<>>
  /\ rresult = NoResult

InitStore ==
  /\ db = EmptyDb
  /\ tx = NoTx
  /\ pc = "DONE"
  /\ planned = <<>>
  /\ acc = NoAcc

NotStarted ==
  /\ epc = "initial_run"
  /\ now = 0
  /\ today_07 = 0
  /\ tomorrow_07 = 0
  /\ target = 0
  /\ sleep_seconds = 0
  /\ bpc = "idle"
  /\ steps = <<>>
  /\ exits = <<>>
  /\ runs = <<>>

Init ==
  /\ today = MaxDate
  /\ InitStore
  /\ InitReader
  /\ clock = 0
  /\ NotStarted

\* The dates the site build asks for: those a run may have written, and the next one.
ReadDates == {d \in (today - MaxBackfill + 1)..(today + 1) : d >= 1}

\* The steps of a run after PLANNING.
ProcessDays ==
  \/ \E code \in Countries : ProcessCountry(code)
  \/ SkipDay
  \/ SummarizeGlobal
  \/ WriteCountry
  \/ WriteDaily
  \/ CommitDay
  \/ AbortCommit

\* Runs with a backfill of 1..MaxBackfill days.
DailyPipeline ==
  \/ \E n \in 1..MaxBackfill : Planning(n)
  \/ ProcessDays

DailyReaders ==
  \/ getLatestDigest
  \/ \E date \in ReadDates : getDigestByDate(date)
  \/ SelectCountries
  \/ SelectReleases
  \/ getAllDigestDates
  \/ StatementThrows

WeeklyReaders ==
  \/ \E weekEnd \in {WeekEndOf(d) : d \in ReadDates} : getWeeklyDigest(weekEnd)
  \/ getAllWeeklyDates

\* Runs up to date MaxDate, before the first weekly window is over (so that
\* ROLLING_UP_WEEK and buildWeeklyPage are not reached), read by the site build.
Next ==
  \/ DailyPipeline
  \/ DailyReaders
  \/ WeeklyReaders

Spec == Init /\ [][Next]_vars

InitWeekly ==
  /\ today = 2 * WindowDays
  /\ InitStore
  /\ InitReader
  /\ clock = 0
  /\ NotStarted

\* Runs on the last day of the second weekly window, with a backfill of up to
\* the days of that window.
NextWeekly ==
  \/ \E n \in 1..WindowDays : Planning(n)
  \/ ProcessDays
  \/ RollupWeek

SpecWeekly == InitWeekly /\ [][NextWeekly]_vars

\* A run in progress goes on: the orchestrator does not stop in ROLLING_UP_WEEK.
SpecWeeklyFair == SpecWeekly /\ WF_vars(RollupWeek)

\* The same runs, read through the weekly readers.
NextWeeklyRead ==
  \/ NextWeekly
  \/ WeeklyReaders
  \/ buildWeeklyPage
  \/ StatementThrows

SpecWeeklyRead == InitWeekly /\ [][NextWeeklyRead]_vars

\* The container is started at any instant of its first day.
InitSched ==
  /\ today = MaxDate
  /\ InitStore
  /\ InitReader
  /\ clock \in {o \in Offsets : TRUE}
  /\ NotStarted

NextSched ==
  \/ StartBuildAndDeploy
  \/ \E status \in {0, 1} : StepExits(status)
  \/ InitialRunEnds
  \/ Tick
  \/ SecondPasses
  \/ SampleNow
  \/ SampleToday07
  \/ SampleTomorrow07
  \/ ComputeSleep
  \/ Sleep
  \/ DailyRunEnds

SpecSched == InitSched /\ [][NextSched]_vars

\* The shell goes on to its next command, and every step of build_and_deploy.sh
\* ends; how long a step takes is left open.
SpecSchedFair ==
  /\ SpecSched
  /\ WF_vars(StartBuildAndDeploy)
  /\ WF_vars(\E status \in {0, 1} : StepExits(status))
  /\ WF_vars(InitialRunEnds)
  /\ WF_vars(SampleNow)
  /\ WF_vars(SampleToday07)
  /\ WF_vars(SampleTomorrow07)
  /\ WF_vars(ComputeSleep)
  /\ WF_vars(Sleep)
  /\ WF_vars(DailyRunEnds)

\* ------------------------------------------------------------ properties
Ids(rows) == {r.id : r \in rows}

PageReturned == rresult.kind = "page"

\* The ids of the country rows and of the release rows a returned page holds.
PageCountryIds == {rresult.countries[i].id : i \in 1..Len(rresult.countries)}

PageReleaseIds(i) == Ids(Range(rresult.countries[i].releases))

\* C1: a DigestPage returned by getDigestByDate or getLatestDigest, whatever the
\* writer's transaction did in between, holds a committed daily row with every
\* committed country row of that day and every committed release row of each of
\* them: no part of the day is missing and none comes from an uncommitted write.
C1_NoPartialDay ==
  (PageReturned /\ rop.name \in {"getDigestByDate", "getLatestDigest"}) =>
    /\ rresult.digest \in db.daily_digest
    /\ \A c \in db.country_digest :
         c.daily_digest_id = rresult.digest.id => c.id \in PageCountryIds
    /\ \A i \in 1..Len(rresult.countries) :
         /\ \E c \in db.country_digest : c.id = rresult.countries[i].id
         /\ \A r \in db.release_summary :
              r.country_digest_id = rresult.countries[i].id => r.id \in PageReleaseIds(i)
         /\ Range(rresult.countries[i].releases) \subseteq db.release_summary

\* A page was returned while the writer's next transaction was in mid-write.
C1_Witness ==
  /\ PageReturned
  /\ Len(rresult.countries) = 2
  /\ tx.open
  /\ tx.rows.country_digest # {}

\* C2: the dates a run still has to process, the one in process included, have
\* no DailyDigest; so a Fetch Client call, a Summarizer call or a write is only
\* ever made for a date without a DailyDigest, and a run whose dates all have
\* one plans nothing, stays DONE and leaves the store as it was.
C2_IdempotentRerun ==
  /\ pc \in {"PROCESSING_DAY", "COMMIT_DAY"} =>
       /\ planned # <<>>
       /\ \A i \in 1..Len(planned) : ~hasDailyDigest(planned[i])
  /\ pc = "ROLLING_UP_WEEK" => \A i \in 2..Len(planned) : ~hasDailyDigest(planned[i])
  /\ pc = "DONE" => (planned = <<>> /\ ~tx.open /\ acc = NoAcc)
  /\ (\A c \in Countries : ~acc[c].done) => ~tx.open

\* A run of "backfill 2 days" with the first of the two dates present: only the
\* other one is planned.
C2_Witness ==
  /\ pc = "PROCESSING_DAY"
  /\ hasDailyDigest(today - 1)
  /\ planned = <<today>>
  /\ acc["AR"].done

\* C3: the store holds at most one ReleaseSummary per release_id, and no release
\* handed to the Summarizer for the day in process has a ReleaseSummary.
C3_Dedup ==
  /\ \A x, y \in db.release_summary : x.release_id = y.release_id => x = y
  /\ pc \in {"PROCESSING_DAY", "COMMIT_DAY"} =>
       \A c \in Countries :
         acc[c].passed \cap {x.release_id : x \in db.release_summary} = {}

\* Release 3, summarized on date 1, is returned again on date 2 and only release
\* 5 goes to the Summarizer.
C3_Witness ==
  /\ pc = "PROCESSING_DAY"
  /\ Head(planned) = 2
  /\ \E r \in db.release_summary : r.release_id = 3
  /\ acc["AR"].passed = {5}

\* C5: each date has at most one DailyDigest row, every DailyDigest row has at
\* least one CountryDigest, and every page returned has a non-empty countries list.
C5_NoEmptyDay ==
  /\ \A x, y \in db.daily_digest : x.date = y.date => x = y
  /\ \A d \in db.daily_digest : \E c \in db.country_digest : c.daily_digest_id = d.id
  /\ PageReturned => Len(rresult.countries) >= 1

\* Every country of date 2 was processed and none has a release summary: the
\* day is about to be skipped, while date 1 has a row and was read.
C5_Witness ==
  /\ PageReturned
  /\ pc = "PROCESSING_DAY"
  /\ Head(planned) = 2
  /\ \A c \in Countries : acc[c].done
  /\ Content = {}
  /\ hasDailyDigest(1)

\* C6: the page getDigestByDate returns for a stored date holds exactly the
\* country rows of that date's digest, in ascending order of country_name, each
\* with exactly its own release rows in ascending order of id.
C6_AggregationReadBack ==
  (PageReturned /\ rop.name = "getDigestByDate") =>
    /\ rresult.digest.date = rop.arg
    /\ PageCountryIds = Ids({c \in db.country_digest : c.daily_digest_id = rresult.digest.id})
    /\ \A i, j \in 1..Len(rresult.countries) :
         i < j => Collate(rresult.countries[i].country_name)
                    < Collate(rresult.countries[j].country_name)
    /\ \A i \in 1..Len(rresult.countries) :
         LET rel == rresult.countries[i].releases IN
           /\ Range(rel) = {r \in db.release_summary :
                              r.country_digest_id = rresult.countries[i].id}
           /\ \A a, b \in 1..Len(rel) : a < b => rel[a].id < rel[b].id

\* Countries {Argentina: 3 releases, UAE: 1 release} read back as 2 entries
\* with release counts 3 and 1.
C6_Witness ==
  /\ PageReturned
  /\ rop.name = "getDigestByDate"
  /\ Len(rresult.countries) = 2
  /\ rresult.countries[1].country_name = "Argentina"
  /\ Len(rresult.countries[1].releases) = 3
  /\ rresult.countries[2].country_name = "UAE"
  /\ Len(rresult.countries[2].releases) = 1

\* C7: a step of a read operation leaves every table of the store and the
\* writer's transaction as they were, and a call that has returned (a value or
\* null) or thrown has closed the connection it opened.
C7_ReadersOnlyRead ==
  [][readerVars' # readerVars =>
       /\ storeVars' = storeVars
       /\ rpc' \in {"returned", "threw"} => rconn' = "closed"
       /\ rconn' = "open" => rpc' \in {"buildDigestPage", "releases", "buildWeeklyPage"}]_vars

\* A call threw in buildDigestPage, on a populated store, and its connection
\* is closed.
C7_Witness ==
  /\ rpc = "threw"
  /\ rconn = "closed"
  /\ rrows # <<>>
  /\ db.daily_digest # {}

StoredDates == {r.date : r \in db.daily_digest}

\* C8: getAllDigestDates returns the dates of the daily_digest rows, each once,
\* in strictly descending order; the first SELECT of getLatestDigest finds the
\* row of the greatest stored date, and the call returns null exactly when
\* there is no row, else the page of that row.
C8_DatesDescending ==
  [][/\ (readerVars' # readerVars /\ rop'.name = "getAllDigestDates") =>
          /\ Range(rresult'.dates) = StoredDates
          /\ \A i, j \in 1..Len(rresult'.dates) :
               i < j => rresult'.dates[i] > rresult'.dates[j]
     /\ (readerVars' # readerVars /\ Idle /\ rop'.name = "getLatestDigest") =>
          /\ rresult' = ReturnedNull <=> StoredDates = {}
          /\ StoredDates # {} =>
               (rrow'[1] \in db.daily_digest /\ rrow'[1].date = Max(StoredDates))
     /\ (rop'.name = "getLatestDigest" /\ rresult'.kind = "page") =>
          rresult'.digest = rrow'[1]]_vars

\* Both dates are stored and getAllDigestDates returned them, the later first.
C8_Witness ==
  /\ rop.name = "getAllDigestDates"
  /\ rresult = [kind |-> "dates", dates |-> <<2, 1>>]

\* The first 07:00 UTC instant strictly after instant t.
Next07(t) == IF t % DaySecs < SevenAM THEN Today07(t) ELSE Tomorrow07(t)

\* C9: in every iteration of the loop the computed sleep is strictly positive,
\* at most 86400 seconds, and ends at the first 07:00 UTC instant strictly after
\* the sampled now; every daily run is started for a 07:00 UTC instant, not
\* before it, and no two runs for the same instant.
C9_SleepUntilNext07 ==
  /\ epc = "sleep" =>
       /\ sleep_seconds > 0
       /\ sleep_seconds <= DaySecs
       /\ now + sleep_seconds = Next07(now)
  /\ \A i \in 1..Len(runs) :
       /\ runs[i].target % DaySecs = SevenAM
       /\ runs[i].start >= runs[i].target
  /\ \A i, j \in 1..Len(runs) : i < j => runs[i].target < runs[j].target

\* C10: the steps of build_and_deploy.sh start in the order generate, build,
\* deploy, each only after every earlier step exited zero, and the script stops
\* at the first step that exits non-zero.
C10_StepsInOrder ==
  /\ \E k \in 0..Len(Pipeline) : steps = SubSeq(Pipeline, 1, k)
  /\ \A i \in 1..Len(steps) : \A j \in 1..(i - 1) : j <= Len(exits) /\ exits[j] = 0
  /\ bpc = "failed" => (Len(exits) = Len(steps) /\ exits[Len(exits)] # 0)
  /\ bpc = "succeeded" => (steps = Pipeline /\ \A j \in 1..Len(exits) : exits[j] = 0)
  /\ bpc \in Range(Pipeline) => (steps # <<>> /\ bpc = steps[Len(steps)])

\* The build failed after a successful generate: the deploy was never started.
C10_Witness ==
  /\ bpc = "failed"
  /\ steps = <<"generate", "build">>
  /\ exits = <<0, 1>>

\* The week-end dates of the first two windows.
WeekEnds == {k * WindowDays : k \in 1..2}

AllSevenStored(weekEnd) == \A d \in (weekEnd - 6)..weekEnd : d \in StoredDates

PastHorizon == epc = "sleep" /\ clock + sleep_seconds > Horizon

\* C11: the entrypoint exits only out of a failed initial run, with that run's
\* non-zero status, before any daily run was started, and nothing happens after
\* it; a failed daily run takes the entrypoint back to the head of the loop,
\* and after it a further daily run is eventually started (as long as its
\* sleep ends within the days followed); a failed initial run eventually ends
\* the entrypoint.
C11_FailureAsymmetry ==
  /\ [](epc = "exited" =>
          /\ bpc = "failed"
          /\ exits # <<>>
          /\ exits[Len(exits)] # 0
          /\ runs = <<>>)
  /\ [][/\ epc' = "exited" => epc \in {"initial_run", "exited"}
        /\ epc = "exited" => schedVars' = schedVars
        /\ (epc = "initial_run" /\ bpc = "failed" /\ epc' # epc) => epc' = "exited"
        /\ (epc = "daily_run" /\ bpc = "failed" /\ epc' # epc) => epc' = "now"]_vars
  /\ (epc = "initial_run" /\ bpc = "failed") ~> (epc = "exited")
  /\ \A n \in 1..(MaxDay + 1) :
       (epc = "daily_run" /\ bpc = "failed" /\ Len(runs) = n)
         ~> (Len(runs) > n \/ PastHorizon)

\* The first daily run failed and the second one has been started, a day later.
C11_Witness ==
  /\ Len(runs) = 2
  /\ runs[1].status # 0
  /\ runs[2].target = runs[1].target + DaySecs
  /\ bpc = "generate"

====
